---- MODULE Spec2Model ----
(***************************************************************************)
(* Debate backend: the Express handlers of src/src/server/server3.js (the  *)
(* MemoryVectorStore pipeline) and src/unnamed/part_000 (the FaissStore    *)
(* pipeline).  One slot is one in-flight HTTP request; an action is the    *)
(* code of a handler between two awaits.                                   *)
(***************************************************************************)
EXTENDS Integers, Sequences, FiniteSets, TLC

VARIABLES variant, store, now, req

vars == <<variant, store, now, req>>

----------------------------------------------------------------------------
(* Bounds of the model *)

MaxReq == 2
MaxCreates == 2

Slots == 1..MaxReq

----------------------------------------------------------------------------
(* JavaScript values of the request bodies *)

Undef == [t |-> "undefined", v |-> ""]
Str(s) == [t |-> "string", v |-> s]
Num(s) == [t |-> "number", v |-> s]

\* ToBoolean, as used by `!question` and `clientId ? ... : ...`
Truthy(x) ==
  CASE x.t = "undefined" -> FALSE
    [] x.t = "string" -> x.v # ""
    [] x.t = "number" -> x.v \notin {"0", "NaN"}
    [] OTHER -> TRUE

Questions == {Undef, Str(""), Str("q1"), Num("42")}
ClientIdInputs == {Undef, Str(""), Str("u1")}

----------------------------------------------------------------------------
(* Debate records *)

ShortChat == <<[speaker |-> "user", content |-> "short"]>>
LongChat == <<[speaker |-> "user", content |-> "short"],
              [speaker |-> "ai", content |-> "long"]>>

Bodies ==
  { [clientId |-> Str("u1"), debateTopic |-> "T1", chatHistory |-> LongChat],
    [clientId |-> Str("u2"), debateTopic |-> "T2", chatHistory |-> ShortChat],
    [clientId |-> Undef, debateTopic |-> "T1", chatHistory |-> ShortChat] }

\* debateSchema: clientId is a required String (mongoose rejects undefined
\* and the empty string for a required String path)
debateSchema(body) == body.clientId.t = "string" /\ body.clientId.v # ""

\* new Debate(req.body): _id and createdAt (Date.now) are set at construction
Debate(body, t) ==
  [id |-> t, clientId |-> body.clientId.v, debateTopic |-> body.debateTopic,
   chatHistory |-> body.chatHistory, createdAt |-> t]

\* lengths, in characters, of the strings of the model
StrLen(s) ==
  CASE s = "short" -> 40
    [] s = "long" -> 4000
    [] s = "user" -> 4
    [] s = "ai" -> 2
    [] OTHER -> 2

----------------------------------------------------------------------------
(* Document store queries *)

\* .sort({ createdAt: -1 })
RECURSIVE SortDesc(_)
SortDesc(s) ==
  IF s = <<>> THEN <<>>
  ELSE LET i == CHOOSE j \in 1..Len(s) :
                  \A k \in 1..Len(s) : s[k].createdAt <= s[j].createdAt
           rest == [k \in 1..(Len(s) - 1) |-> IF k < i THEN s[k] ELSE s[k + 1]]
       IN <<s[i]>> \o SortDesc(rest)

\* const query = clientId ? { clientId } : {}
RagQuery(clientId) ==
  IF Truthy(clientId) THEN [filtered |-> TRUE, clientId |-> clientId.v]
  ELSE [filtered |-> FALSE, clientId |-> ""]

\* Debate.find(query).sort({ createdAt: -1 })
Find(query, db) ==
  LET Keep(d) == (~query.filtered) \/ d.clientId = query.clientId
  IN SortDesc(SelectSeq(db, Keep))

\* projection 'debateTopic userRole createdAt clientId' of the list route
Project(d) ==
  [id |-> d.id, clientId |-> d.clientId, debateTopic |-> d.debateTopic,
   createdAt |-> d.createdAt]

\* Debate.findById(debateId): the record or null (the empty sequence)
FindById(n, db) == SelectSeq(db, LAMBDA d : d.id = n)

\* the :debateId path parameter: a 24 character hex string naming the n-th
\* identifier, or a string of another shape
NotAnId == [len |-> 9, hex |-> FALSE, n |-> 0]
NonHex24 == [len |-> 24, hex |-> FALSE, n |-> 0]
Oid(n) == [len |-> 24, hex |-> TRUE, n |-> n]
IdParams == {NotAnId, NonHex24} \cup {Oid(n) : n \in 1..(MaxCreates + 1)}

\* a validity test that looks at the length of the id only
IsValidObjectIdLengthOnly(p) == p.len = 24

\* mongoose.Types.ObjectId.isValid(debateId)
IsValidObjectId(p) == p.len = 24 /\ p.hex

----------------------------------------------------------------------------
(* RAG pipeline: pure parts *)

RECURSIVE SumLines(_)
SumLines(chat) ==
  IF chat = <<>> THEN 0
  ELSE StrLen(Head(chat).speaker) + 2 + StrLen(Head(chat).content)
       + (IF Len(chat) > 1 THEN 1 ELSE 0) + SumLines(Tail(chat))

\* `Debate on "${debate.debateTopic}" (Client: ${debate.clientId}):\n${chatHistoryText}`
\* the text is kept as its parts and its length in characters
DebateText(d) ==
  [topic |-> d.debateTopic, clientId |-> d.clientId, lines |-> d.chatHistory,
   len |-> 11 + StrLen(d.debateTopic) + 11 + StrLen(d.clientId) + 3
           + SumLines(d.chatHistory)]

DebateTexts(debates) == [i \in 1..Len(debates) |-> DebateText(debates[i])]

\* chunkSize / chunkOverlap of the two variants
ChunkSize(v) == IF v = "memory" THEN 2000 ELSE 1000
ChunkOverlap == 200

\* the spans [from, to) cut from a text of len characters
RECURSIVE Spans(_, _, _)
Spans(from, len, size) ==
  IF len - from <= size THEN <<[from |-> from, to |-> len]>>
  ELSE <<[from |-> from, to |-> from + size]>>
       \o Spans(from + size - ChunkOverlap, len, size)

\* textSplitter.createDocuments(debateTexts)
RECURSIVE CreateDocuments(_, _)
CreateDocuments(texts, size) ==
  IF texts = <<>> THEN <<>>
  ELSE LET sp == Spans(0, Head(texts).len, size)
       IN [i \in 1..Len(sp) |->
             [text |-> Head(texts), from |-> sp[i].from, to |-> sp[i].to]]
          \o CreateDocuments(Tail(texts), size)

\* the embedder: a deterministic map from a text to a point
EmbedDocument(c) ==
  ((c.to - c.from) \div 100 + c.from \div 100 + StrLen(c.text.topic)
   + Len(c.text.lines)) % 7

\* what the retriever is invoked with: server3.js pipes the chain input
\* (the object { question }) into the retriever, which interpolates it into
\* the query text as "[object Object]"
RetrieverInput(v, question) ==
  IF v = "memory" THEN "[object Object]" ELSE question.v

EmbedQuery(text) ==
  CASE text = "q1" -> 3
    [] text = "42" -> 5
    [] OTHER -> 1

Distance(a, b) == IF a >= b THEN a - b ELSE b - a

\* VectorStore.fromDocuments(splitDocs, embeddings): one entry per document
FromDocuments(docs) ==
  [i \in 1..Len(docs) |-> [doc |-> docs[i], vector |-> EmbedDocument(docs[i])]]

\* asRetriever({ k: 5 })
K == 5

\* similarity search: the k nearest entries, the earlier entry winning a tie
RECURSIVE SimilaritySearch(_, _, _)
SimilaritySearch(entries, qv, k) ==
  IF k = 0 \/ entries = <<>> THEN <<>>
  ELSE LET best == CHOOSE i \in 1..Len(entries) :
                     /\ \A j \in 1..Len(entries) :
                          Distance(entries[i].vector, qv)
                            <= Distance(entries[j].vector, qv)
                     /\ \A j \in 1..(i - 1) :
                          Distance(entries[j].vector, qv)
                            > Distance(entries[i].vector, qv)
           rest == [j \in 1..(Len(entries) - 1) |->
                      IF j < best THEN entries[j] ELSE entries[j + 1]]
       IN <<entries[best].doc>> \o SimilaritySearch(rest, qv, k - 1)

\* ChatPromptTemplate: system text with {context}, then the human {question}
Prompt(context, question) == [context |-> context, question |-> question]

NoHistoryReply ==
  "I couldn't find any debate history. Once you complete a debate, you can ask me questions about it."

GeneratorTexts == {"answer1", "answer2"}

----------------------------------------------------------------------------
(* Requests *)

NoBody == [clientId |-> Undef, debateTopic |-> "", chatHistory |-> <<>>]
NoRes == [status |-> 0, body |-> [success |-> FALSE]]
NoCalls == [find |-> 0, findById |-> 0, save |-> 0, split |-> 0,
            embedDocuments |-> 0, embedQuery |-> 0, generate |-> 0]

Idle ==
  [kind |-> "idle", st |-> "idle", question |-> Undef, clientId |-> Undef,
   param |-> NotAnId, body |-> NoBody, newDebate |-> <<>>,
   debates |-> <<>>, debateTexts |-> <<>>, splitDocs |-> <<>>,
   vectorStore |-> <<>>, partial |-> <<>>, searched |-> <<>>,
   context |-> <<>>, prompt |-> Prompt(<<>>, Undef), result |-> "",
   found |-> -1, error |-> "",
   res |-> NoRes, calls |-> NoCalls, trace |-> <<>>]

Json(status, body) == [status |-> status, body |-> body]

\* a catch block that also returns the error's message, as the debate routes do
RagErrorBodyWithError ==
  [success |-> FALSE, message |-> "An error occurred while processing your request.",
   error |-> "error.message"]

\* the catch block of the RAG route
RagErrorBody ==
  [success |-> FALSE, message |-> "An error occurred while processing your request."]

\* the catch blocks of the debate routes
StoreErrorBody(message) ==
  [success |-> FALSE, message |-> message, error |-> "error.message"]

Terminal == {"REJECTED", "EMPTY_HISTORY", "DONE", "FAILED", "RESPONDED"}
Pipeline == {"LOADING", "CHUNKING", "INDEXING", "RETRIEVING", "GENERATING"}

\* move request s to state st with the fields of upd changed
Step(s, st, upd) ==
  req' = [req EXCEPT ![s] =
            [f \in DOMAIN req[s] |->
               IF f = "st" THEN st
               ELSE IF f = "trace" THEN Append(req[s].trace, st)
               ELSE IF f \in DOMAIN upd THEN upd[f]
               ELSE req[s][f]]]

Called(s, name) == [req[s].calls EXCEPT ![name] = @ + 1]

----------------------------------------------------------------------------
(* POST /api/chat/rag *)

\* a handler that rejects the empty string only (`question === ""`)
RagReceiveEmptyOnly(s, question, clientId) ==
  /\ req[s].kind = "idle"
  /\ IF question = Str("")
     THEN Step(s, "REJECTED",
               [kind |-> "rag", question |-> question, clientId |-> clientId,
                res |-> Json(400, [success |-> FALSE,
                                   message |-> "Question is required."])])
     ELSE Step(s, "LOADING",
               [kind |-> "rag", question |-> question, clientId |-> clientId,
                calls |-> Called(s, "find")])
  /\ UNCHANGED <<variant, store, now>>

\* `if (!question) return 400`, else the document fetch is issued
RagReceive(s, question, clientId) ==
  /\ req[s].kind = "idle"
  /\ IF ~Truthy(question)
     THEN Step(s, "REJECTED",
               [kind |-> "rag", question |-> question, clientId |-> clientId,
                res |-> Json(400, [success |-> FALSE,
                                   message |-> "Question is required."])])
     ELSE Step(s, "LOADING",
               [kind |-> "rag", question |-> question, clientId |-> clientId,
                calls |-> Called(s, "find")])
  /\ UNCHANGED <<variant, store, now>>

\* a handler without the `debates.length === 0` return
RagLoadNoEmptyCheck(s) ==
  /\ req[s].kind = "rag" /\ req[s].st = "LOADING"
  /\ LET debates == Find(RagQuery(req[s].clientId), store)
     IN Step(s, "CHUNKING",
             [found |-> Len(debates),
              debates |-> debates, debateTexts |-> DebateTexts(debates),
              calls |-> Called(s, "split")])
  /\ UNCHANGED <<variant, store, now>>

\* Debate.find resolves: the empty-history reply, or the texts are
\* formatted and the splitter is called
RagLoad(s) ==
  /\ req[s].kind = "rag" /\ req[s].st = "LOADING"
  /\ LET debates == Find(RagQuery(req[s].clientId), store)
     IN IF Len(debates) = 0
        THEN Step(s, "EMPTY_HISTORY",
                  [found |-> 0,
                   res |-> Json(200, [success |-> TRUE, reply |-> NoHistoryReply])])
        ELSE Step(s, "CHUNKING",
                  [found |-> Len(debates),
                   debates |-> debates, debateTexts |-> DebateTexts(debates),
                   calls |-> Called(s, "split")])
  /\ UNCHANGED <<variant, store, now>>

\* createDocuments resolves; fromDocuments is called
RagSplit(s) ==
  /\ req[s].kind = "rag" /\ req[s].st = "CHUNKING"
  /\ Step(s, "INDEXING",
          [splitDocs |-> CreateDocuments(req[s].debateTexts, ChunkSize(variant)),
           calls |-> Called(s, "embedDocuments")])
  /\ UNCHANGED <<variant, store, now>>

\* building the chain: part_000 calls .pipe on an arrow function, which has
\* no such method, so the construction throws a TypeError
ChainBuilds(v) == v = "memory"

\* fromDocuments resolves; retriever, prompt, model and chain are built and
\* the chain is invoked, its first step being the retriever
RagIndex(s) ==
  /\ req[s].kind = "rag" /\ req[s].st = "INDEXING"
  /\ IF ChainBuilds(variant)
     THEN Step(s, "RETRIEVING",
               [vectorStore |-> FromDocuments(req[s].splitDocs),
                calls |-> Called(s, "embedQuery")])
     ELSE Step(s, "FAILED",
               [vectorStore |-> FromDocuments(req[s].splitDocs),
                error |-> "TypeError",
                res |-> Json(500, RagErrorBody)])
  /\ UNCHANGED <<variant, store, now>>

\* a build that skips the chunks the embedder rejects and goes on with the
\* entries it has
RagIndexFailPartial(s, n) ==
  /\ req[s].kind = "rag" /\ req[s].st = "INDEXING"
  /\ n \in 1..Len(req[s].splitDocs)
  /\ Step(s, "RETRIEVING",
          [vectorStore |-> SubSeq(FromDocuments(req[s].splitDocs), 1, n - 1),
           error |-> "embedder:build",
           calls |-> Called(s, "embedQuery")])
  /\ UNCHANGED <<variant, store, now>>

\* the embedder rejects at chunk n of the build: fromDocuments throws, the
\* entries made so far are dropped with it
RagIndexFail(s, n) ==
  /\ req[s].kind = "rag" /\ req[s].st = "INDEXING"
  /\ n \in 1..Len(req[s].splitDocs)
  /\ Step(s, "FAILED",
          [partial |-> SubSeq(FromDocuments(req[s].splitDocs), 1, n - 1),
           error |-> "embedder:build",
           res |-> Json(500, RagErrorBody)])
  /\ UNCHANGED <<variant, store, now>>

\* a vector store kept in one module-level variable: every request searches
\* the store of the lowest slot that has built one
RetrieverStoreShared(s) ==
  req[CHOOSE t \in Slots :
        /\ req[t].vectorStore # <<>>
        /\ \A u \in Slots : req[u].vectorStore # <<>> => t <= u].vectorStore

\* the store the retriever of request s searches
RetrieverStore(s) == req[s].vectorStore

\* the retriever resolves; the prompt is rendered and the model is called
RagRetrieve(s) ==
  /\ req[s].kind = "rag" /\ req[s].st = "RETRIEVING"
  /\ LET index == RetrieverStore(s)
         context == SimilaritySearch(
                      index,
                      EmbedQuery(RetrieverInput(variant, req[s].question)), K)
     IN Step(s, "GENERATING",
             [searched |-> Append(req[s].searched, index),
              context |-> context,
              prompt |-> Prompt(context, req[s].question),
              calls |-> Called(s, "generate")])
  /\ UNCHANGED <<variant, store, now>>

\* the model resolves with text; res.json({ success: true, reply: result })
RagGenerate(s, text) ==
  /\ req[s].kind = "rag" /\ req[s].st = "GENERATING"
  /\ Step(s, "DONE",
          [result |-> text,
           res |-> Json(200, [success |-> TRUE, reply |-> text])])
  /\ UNCHANGED <<variant, store, now>>

\* an awaited call of the pipeline rejects: the catch block answers 500
RagFail(s) ==
  /\ req[s].kind = "rag"
  /\ req[s].st \in {"LOADING", "CHUNKING", "RETRIEVING", "GENERATING"}
  /\ Step(s, "FAILED",
          [error |-> CASE req[s].st = "LOADING" -> "store"
                       [] req[s].st = "CHUNKING" -> "splitter"
                       [] req[s].st = "RETRIEVING" -> "embedder:query"
                       [] OTHER -> "generator",
           res |-> Json(500, RagErrorBody)])
  /\ UNCHANGED <<variant, store, now>>

----------------------------------------------------------------------------
(* GET /api/debates/:debateId *)

GetReceive(s, p) ==
  /\ req[s].kind = "idle"
  /\ IF ~IsValidObjectId(p)
     THEN Step(s, "RESPONDED",
               [kind |-> "get", param |-> p,
                res |-> Json(400, [success |-> FALSE,
                                   message |-> "Invalid debate ID format."])])
     ELSE Step(s, "FINDING",
               [kind |-> "get", param |-> p, calls |-> Called(s, "findById")])
  /\ UNCHANGED <<variant, store, now>>

GetResolve(s) ==
  /\ req[s].kind = "get" /\ req[s].st = "FINDING"
  /\ LET debate == FindById(req[s].param.n, store)
     IN IF debate = <<>>
        THEN Step(s, "RESPONDED",
                  [res |-> Json(404, [success |-> FALSE,
                                      message |-> "Debate not found."])])
        ELSE Step(s, "RESPONDED",
                  [debates |-> debate,
                   res |-> Json(200, [success |-> TRUE, data |-> debate[1]])])
  /\ UNCHANGED <<variant, store, now>>

GetFail(s) ==
  /\ req[s].kind = "get" /\ req[s].st = "FINDING"
  /\ Step(s, "RESPONDED",
          [res |-> Json(500, StoreErrorBody(
                      "An error occurred while fetching debate details."))])
  /\ UNCHANGED <<variant, store, now>>

----------------------------------------------------------------------------
(* POST /api/debates *)

\* new Debate(req.body); newDebate.save() is called
CreateReceive(s, body) ==
  /\ req[s].kind = "idle"
  /\ now < MaxCreates
  /\ now' = now + 1
  /\ Step(s, "SAVING",
          [kind |-> "create", body |-> body,
           newDebate |-> <<Debate(body, now + 1)>>,
           calls |-> Called(s, "save")])
  /\ UNCHANGED <<variant, store>>

\* save() resolves with the stored record, or rejects with a ValidationError
CreateResolve(s) ==
  /\ req[s].kind = "create" /\ req[s].st = "SAVING"
  /\ IF debateSchema(req[s].body)
     THEN /\ store' = Append(store, req[s].newDebate[1])
          /\ Step(s, "RESPONDED",
                  [res |-> Json(201, [success |-> TRUE,
                                      data |-> req[s].newDebate[1]])])
     ELSE /\ store' = store
          /\ Step(s, "RESPONDED",
                  [res |-> Json(400, [success |-> FALSE,
                                      message |-> "Validation Error",
                                      error |-> "error.message"])])
  /\ UNCHANGED <<variant, now>>

\* a save that fails after the record was written
CreateFailAfterWrite(s) ==
  /\ req[s].kind = "create" /\ req[s].st = "SAVING"
  /\ debateSchema(req[s].body)
  /\ store' = Append(store, req[s].newDebate[1])
  /\ Step(s, "RESPONDED",
          [res |-> Json(500, StoreErrorBody(
                      "An error occurred while creating the debate."))])
  /\ UNCHANGED <<variant, now>>

\* save() rejects with another error
CreateFail(s) ==
  /\ req[s].kind = "create" /\ req[s].st = "SAVING"
  /\ debateSchema(req[s].body)
  /\ Step(s, "RESPONDED",
          [res |-> Json(500, StoreErrorBody(
                      "An error occurred while creating the debate."))])
  /\ UNCHANGED <<variant, store, now>>

----------------------------------------------------------------------------
(* GET /api/debates and GET /api/health *)

ListReceive(s) ==
  /\ req[s].kind = "idle"
  /\ Step(s, "LISTING", [kind |-> "list", calls |-> Called(s, "find")])
  /\ UNCHANGED <<variant, store, now>>

ListResolve(s) ==
  /\ req[s].kind = "list" /\ req[s].st = "LISTING"
  /\ LET debates == Find(RagQuery(Undef), store)
     IN Step(s, "RESPONDED",
             [res |-> Json(200, [success |-> TRUE,
                                 data |-> [i \in 1..Len(debates) |->
                                             Project(debates[i])]])])
  /\ UNCHANGED <<variant, store, now>>

ListFail(s) ==
  /\ req[s].kind = "list" /\ req[s].st = "LISTING"
  /\ Step(s, "RESPONDED",
          [res |-> Json(500, StoreErrorBody(
                      "An error occurred while fetching debates."))])
  /\ UNCHANGED <<variant, store, now>>

Health(s) ==
  /\ req[s].kind = "idle"
  /\ Step(s, "RESPONDED",
          [kind |-> "health",
           res |-> Json(200, [success |-> TRUE, message |-> "Server is running"])])
  /\ UNCHANGED <<variant, store, now>>

\* the response has been sent and the handler's locals are dropped
Release(s) ==
  /\ req[s].st \in Terminal
  /\ req' = [req EXCEPT ![s] = Idle]
  /\ UNCHANGED <<variant, store, now>>

----------------------------------------------------------------------------
(* Specification *)

Init ==
  /\ variant \in {"memory", "faiss"}
  /\ store = <<>>
  /\ now = 0
  /\ req = [s \in Slots |-> Idle]

Next ==
  \E s \in Slots :
    \/ \E q \in Questions, c \in ClientIdInputs : RagReceive(s, q, c)
    \/ RagLoad(s)
    \/ RagSplit(s)
    \/ RagIndex(s)
    \/ \E n \in 1..Len(req[s].splitDocs) : RagIndexFail(s, n)
    \/ RagRetrieve(s)
    \/ \E text \in GeneratorTexts : RagGenerate(s, text)
    \/ RagFail(s)
    \/ \E p \in IdParams : GetReceive(s, p)
    \/ GetResolve(s)
    \/ GetFail(s)
    \/ \E b \in Bodies : CreateReceive(s, b)
    \/ CreateResolve(s)
    \/ CreateFail(s)
    \/ ListReceive(s)
    \/ ListResolve(s)
    \/ ListFail(s)
    \/ Health(s)
    \/ Release(s)

Spec == Init /\ [][Next]_vars

----------------------------------------------------------------------------
(* Properties *)

Rag(s) == req[s].kind = "rag"
InTrace(s, st) == \E i \in 1..Len(req[s].trace) : req[s].trace[i] = st

\* C1: a RAG request whose body omits `question` is answered 400 with
\* success:false, and no call of the document store, the embedder or the
\* generator is made for it.
C1_MissingQuestionRejected ==
  \A s \in Slots :
    Rag(s) /\ req[s].question = Undef =>
      /\ req[s].st = "REJECTED"
      /\ req[s].res.status = 400
      /\ req[s].res.body.success = FALSE
      /\ req[s].calls.find = 0
      /\ req[s].calls.embedDocuments = 0
      /\ req[s].calls.embedQuery = 0
      /\ req[s].calls.generate = 0

C1_Witness ==
  \E s \in Slots :
    Rag(s) /\ req[s].question = Undef /\ req[s].res.status = 400
    /\ Len(store) > 0

\* C2: a RAG request enters LOADING (and the document store is queried for
\* it) only if `question` is a non-empty string.
C2_OnlyNonEmptyStringsLoad ==
  \A s \in Slots :
    Rag(s) /\ (InTrace(s, "LOADING") \/ req[s].calls.find > 0) =>
      req[s].question.t = "string" /\ req[s].question.v # ""

\* C3: when the document fetch of a RAG request returns zero records the
\* request ends in EMPTY_HISTORY with 200 {success:true, reply: the canned
\* message}, and the chunker, the embedder and the generator are never called.
C3_EmptyHistory ==
  \A s \in Slots :
    Rag(s) /\ req[s].found = 0 =>
      /\ req[s].st = "EMPTY_HISTORY"
      /\ req[s].trace = <<"LOADING", "EMPTY_HISTORY">>
      /\ req[s].res.status = 200
      /\ DOMAIN req[s].res.body = {"success", "reply"}
      /\ req[s].res.body.success = TRUE
      /\ req[s].res.body.reply =
           "I couldn't find any debate history. Once you complete a debate, you can ask me questions about it."
      /\ req[s].calls.split = 0
      /\ req[s].calls.embedDocuments = 0
      /\ req[s].calls.embedQuery = 0
      /\ req[s].calls.generate = 0

\* a request scoped to client u1 finds nothing while the store holds a record
\* of another client
C3_Witness ==
  \E s \in Slots :
    Rag(s) /\ req[s].found = 0 /\ req[s].clientId = Str("u1")
    /\ req[s].st = "EMPTY_HISTORY" /\ Len(store) > 0

\* C4: a RAG request with a valid question and at least one matching record,
\* none of whose external calls failed, ends in DONE after LOADING, CHUNKING,
\* INDEXING, RETRIEVING, GENERATING in that order, with 200 {success:true,
\* reply: the generator's text}, in both variants.
C4_HappyPathEndsDone ==
  \A s \in Slots :
    Rag(s) /\ req[s].found > 0 /\ req[s].st \in Terminal
    /\ req[s].error \notin {"store", "splitter", "embedder:build",
                           "embedder:query", "generator"} =>
      /\ req[s].st = "DONE"
      /\ req[s].trace = <<"LOADING", "CHUNKING", "INDEXING", "RETRIEVING",
                          "GENERATING", "DONE">>
      /\ req[s].res.status = 200
      /\ req[s].res.body.success = TRUE
      /\ req[s].res.body.reply = req[s].result

PipelineOrder == <<"LOADING", "CHUNKING", "INDEXING", "RETRIEVING", "GENERATING">>

\* C5: a RAG request in which a stage raised ends in FAILED: the stages
\* before the failure ran once each and in order, no call was made twice, no
\* later stage was started, and the response is 500 with exactly the fields
\* success:false and the fixed message.
C5_FailureIsTerminalAndGeneric ==
  \A s \in Slots :
    Rag(s) /\ (req[s].st = "FAILED" \/ req[s].error # "") =>
      /\ req[s].st = "FAILED"
      /\ req[s].res.status = 500
      /\ DOMAIN req[s].res.body = {"success", "message"}
      /\ req[s].res.body.success = FALSE
      /\ req[s].res.body.message = "An error occurred while processing your request."
      /\ \A c \in DOMAIN req[s].calls : req[s].calls[c] <= 1
      /\ LET n == Len(req[s].trace) - 1
         IN /\ n \in 1..Len(PipelineOrder)
            /\ SubSeq(req[s].trace, 1, n) = SubSeq(PipelineOrder, 1, n)
            /\ req[s].trace[n + 1] = "FAILED"
            /\ req[s].calls.split = (IF n >= 2 THEN 1 ELSE 0)
            /\ req[s].calls.embedDocuments = (IF n >= 3 THEN 1 ELSE 0)
            /\ req[s].calls.embedQuery = (IF n >= 4 THEN 1 ELSE 0)
            /\ req[s].calls.generate = (IF n >= 5 THEN 1 ELSE 0)
      /\ req[s].result = ""

\* the generator call itself failed, after every earlier stage had run
C5_Witness ==
  \E s \in Slots :
    Rag(s) /\ req[s].st = "FAILED" /\ req[s].error = "generator"
    /\ req[s].res.status = 500

\* an id of the identifier syntax: 24 characters, all of them hex digits
WellFormedId(p) == p.len = 24 /\ p.hex = TRUE

\* C6: GET /api/debates/:id answers 400 without querying the store when the id
\* is not a valid identifier; for a valid id it queries the store once and
\* answers 404 when no record has that id at the lookup, 200 with that full
\* record when one has, and 500 when the store fails.
C6_GetById ==
  [][\A s \in Slots :
       /\ (req[s].kind = "idle" /\ req'[s].kind = "get") =>
            IF WellFormedId(req'[s].param)
            THEN req'[s].st = "FINDING" /\ req'[s].calls.findById = 1
            ELSE /\ req'[s].st = "RESPONDED"
                 /\ req'[s].res.status = 400
                 /\ req'[s].calls.findById = 0
       /\ (req[s].kind = "get" /\ req[s].st = "FINDING"
           /\ req'[s].st = "RESPONDED") =>
            LET hit == {i \in 1..Len(store) : store[i].id = req[s].param.n}
            IN \/ req'[s].res.status = 500
               \/ /\ hit = {}
                  /\ req'[s].res.status = 404
               \/ /\ hit # {}
                  /\ req'[s].res.status = 200
                  /\ req'[s].res.body.success = TRUE
                  /\ \E i \in hit : req'[s].res.body.data = store[i]
       /\ (req[s].kind = "get" /\ req'[s].kind = "get") =>
            req'[s].calls.findById <= 1]_vars

\* a lookup that answered 404 for an id under which a record was stored later
C6_Witness ==
  \E s \in Slots :
    /\ req[s].kind = "get" /\ req[s].res.status = 404
    /\ \E i \in 1..Len(store) : store[i].id = req[s].param.n

\* C7: every stored record stays in the store unchanged; the store changes
\* only in a step in which a POST /api/debates is answered 201, and that step
\* adds exactly the one record of the response; every other step, of whatever
\* route and whatever its outcome, leaves the store as it is.
C7_StoreAppendOnly ==
  [][/\ Len(store') >= Len(store)
     /\ \A i \in 1..Len(store) : store'[i] = store[i]
     /\ store' # store =>
          /\ Len(store') = Len(store) + 1
          /\ \E s \in Slots :
               /\ req[s].kind = "create" /\ req[s].st = "SAVING"
               /\ req'[s].res.status = 201
               /\ req'[s].res.body.data = store'[Len(store')]
               /\ \A t \in Slots \ {s} : req'[t] = req[t]
     /\ (\A s \in Slots : req'[s].res.status # 201 \/ req'[s] = req[s]) =>
          store' = store]_vars

\* a record is stored, and a later POST /api/debates has failed with 500
C7_Witness ==
  /\ Len(store) > 0
  /\ \E s \in Slots : req[s].kind = "create" /\ req[s].res.status = 500

\* the pipeline data of request s, as computed from its own question and the
\* records its own fetch returned
OwnQuery(s) == EmbedQuery(RetrieverInput(variant, req[s].question))
OwnDocs(s) == CreateDocuments(DebateTexts(req[s].debates), ChunkSize(variant))
OwnContext(s) == SimilaritySearch(FromDocuments(OwnDocs(s)), OwnQuery(s), K)

\* C8: whatever the interleaving of the requests in flight, the chunks, the
\* vector index, the retrieved context, the prompt and the reply of a RAG
\* request are those computed from its own question and its own fetched
\* records.
C8_RequestsAreIsolated ==
  \A s \in Slots :
    Rag(s) =>
      /\ InTrace(s, "CHUNKING") => req[s].debateTexts = DebateTexts(req[s].debates)
      /\ InTrace(s, "INDEXING") => req[s].splitDocs = OwnDocs(s)
      /\ InTrace(s, "RETRIEVING") => req[s].vectorStore = FromDocuments(OwnDocs(s))
      /\ InTrace(s, "GENERATING") =>
           /\ req[s].searched = <<FromDocuments(OwnDocs(s))>>
           /\ req[s].context = OwnContext(s)
           /\ req[s].prompt = Prompt(OwnContext(s), req[s].question)
      /\ req[s].st = "DONE" => req[s].res.body.reply = req[s].result

\* two RAG requests in flight together, past retrieval, over different records
C8_Witness ==
  \E s \in Slots, t \in Slots :
    /\ s # t /\ Rag(s) /\ Rag(t)
    /\ req[s].st = "GENERATING" /\ req[t].st = "GENERATING"
    /\ req[s].debates # req[t].debates
    /\ req[s].context # req[t].context

\* C9: in a RAG request that reached RETRIEVING the index has one entry per
\* chunk, in the chunks' order, and every index that was searched is that
\* one; when the embedder failed during the build no index exists or is
\* searched, the request is FAILED and the generator is not called.
C9_IndexMatchesChunks ==
  \A s \in Slots :
    Rag(s) =>
      /\ InTrace(s, "RETRIEVING") =>
           /\ Len(req[s].vectorStore) = Len(req[s].splitDocs)
           /\ \A i \in 1..Len(req[s].splitDocs) :
                req[s].vectorStore[i].doc = req[s].splitDocs[i]
      /\ \A i \in 1..Len(req[s].searched) :
           Len(req[s].searched[i]) = Len(req[s].splitDocs)
      /\ req[s].error = "embedder:build" =>
           /\ req[s].st = "FAILED"
           /\ req[s].vectorStore = <<>>
           /\ req[s].searched = <<>>
           /\ req[s].calls.embedQuery = 0
           /\ req[s].calls.generate = 0

\* an index of more than K entries has been searched
C9_Witness ==
  \E s \in Slots :
    /\ Rag(s) /\ InTrace(s, "GENERATING")
    /\ Len(req[s].vectorStore) > K
    /\ Len(req[s].context) = K

\* C10: a RAG request that supplies a clientId, the empty string included,
\* loads only records of that client.
C10_ClientScoped ==
  \A s \in Slots :
    Rag(s) /\ req[s].clientId # Undef =>
      \A i \in 1..Len(req[s].debates) :
        req[s].debates[i].clientId = req[s].clientId.v

====
